---- MODULE Spec2Model ----
(***************************************************************************)
(* Actor-critic trainers of trax/rl/actor_critic.py.                       *)
(*                                                                         *)
(* Spec        ActorCriticTrainer.train_epoch, statement by statement,     *)
(*             driven by the outer RL loop, with process restarts.         *)
(* SpecCopy    _copy_model_weights_and_state on Python lists.              *)
(* SpecInit    ActorCriticTrainer.__init__ of the concrete trainers.       *)
(* SpecStream  policy_batches_stream and the hooks it calls, on shapes.    *)
(*                                                                         *)
(* Weights and state entries are opaque tokens <<owner, kind, version,     *)
(* layer>>: a training round produces entries that no earlier step has     *)
(* produced, so every equality between entries that holds in the model is  *)
(* one that the copies of the code have established.                       *)
(***************************************************************************)
EXTENDS Integers, Sequences, FiniteSets, TLC

VARIABLES
  config,                \* the constructor arguments kept on self (lines 82-94)
  epoch,                 \* self._epoch, the RL epoch being trained
  pc,                    \* position inside train_epoch
  value_trainer,         \* self._value_trainer: step, model_weights, model_state
  policy_trainer,        \* self._policy_trainer: step, model_weights, model_state
  value_eval_model,      \* self._value_eval_model: weights, state
  policy_collect_model,  \* self._policy_collect_model: state
  n_value_evals,         \* local of train_epoch (line 230)
  n_policy_evals,        \* local of train_epoch (line 245)
  loop_left,             \* iterations left of the for loop being executed
  events,                \* history: what this call of train_epoch has done so far
  restarts,              \* history: number of process restarts so far
  epoch_rounds,          \* history: training rounds run for this epoch index, all calls
  call_entry,            \* history: trainer steps and policy weights at entry to this call
  value_before_rounds,   \* history: value model right after the policy->value copy
  copy_call,             \* one call of _copy_model_weights_and_state (SpecCopy)
  ctor,                  \* one run of ActorCriticTrainer.__init__ (SpecInit)
  stream                 \* the policy batch generator of a trainer (SpecStream)

vars == <<config, epoch, pc, value_trainer, policy_trainer, value_eval_model,
          policy_collect_model, n_value_evals, n_policy_evals, loop_left,
          events, restarts, epoch_rounds, call_entry, value_before_rounds,
          copy_call, ctor, stream>>

main_vars == <<config, epoch, pc, value_trainer, policy_trainer, value_eval_model,
               policy_collect_model, n_value_evals, n_policy_evals, loop_left,
               events, restarts, epoch_rounds, call_entry, value_before_rounds>>

aside == <<copy_call, ctor, stream>>

(***************************************************************************)
(* Bounds of the model.                                                    *)
(***************************************************************************)
NLayers == 2
MaxTrainSteps == 3
MaxEpochs == 2
MaxRestarts == 2
MaxLen == 3

Min(a, b) == IF a <= b THEN a ELSE b

(***************************************************************************)
(* Python list slicing for 0 <= a <= b: s[a:b] and s[a:b] = x.            *)
(***************************************************************************)
PySlice(s, a, b) == SubSeq(s, a + 1, Min(b, Len(s)))

PySliceAssign(s, a, b, x) == PySlice(s, 0, a) \o x \o PySlice(s, b, Len(s))

(***************************************************************************)
(* _copy_model_weights_and_state(start, end, from_trainer, to_trainer):    *)
(* the to_trainer after the call (copy_optimizer_slots is False at every   *)
(* call site).  The from_trainer is only read.                             *)
(***************************************************************************)
CopySkipsState(start, end, from_trainer, to_trainer) ==
  [to_trainer EXCEPT
     !.model_weights = PySliceAssign(to_trainer.model_weights, start, end,
                                     PySlice(from_trainer.model_weights, start, end))]

copy_model_weights_and_state(start, end, from_trainer, to_trainer) ==
  [to_trainer EXCEPT
     !.model_weights = PySliceAssign(to_trainer.model_weights, start, end,
                                     PySlice(from_trainer.model_weights, start, end)),
     !.model_state = PySliceAssign(to_trainer.model_state, start, end,
                                   PySlice(from_trainer.model_state, start, end))]

(***************************************************************************)
(* rl_training.remaining_evals(cur_step, epoch, train_steps_per_epoch,     *)
(* evals_per_epoch): the evaluation rounds of this epoch not yet run,      *)
(* inferred from cur_step relative to epoch * train_steps_per_epoch, a     *)
(* round being train_steps_per_epoch // evals_per_epoch steps long.        *)
(* Epoch indices start at 0.                                               *)
(***************************************************************************)
remaining_evals(cur_step, ep, train_steps_per_epoch, evals_per_epoch) ==
  evals_per_epoch
    - ((cur_step - ep * train_steps_per_epoch)
         \div (train_steps_per_epoch \div evals_per_epoch))

(***************************************************************************)
(* Models as the supervised trainer holds them.                            *)
(***************************************************************************)
Entries(owner, kind, version) == [i \in 1..NLayers |-> <<owner, kind, version, i>>]

\* The trainer as its last checkpoint holds it: the model after `step` steps.
TrainerAt(owner, step) ==
  [step |-> step,
   model_weights |-> Entries(owner, "weights", step),
   model_state |-> Entries(owner, "state", step)]

\* supervised.Trainer.train_epoch(n_steps, n_eval_steps): step advances by
\* n_steps, weights and state are the trained ones.
TrainerTrainEpoch(owner, trainer, n_steps) == TrainerAt(owner, trainer.step + n_steps)

\* value_model(mode='eval') after init (lines 101-102).
EvalModelInit ==
  [weights |-> Entries("eval", "weights", 0), state |-> Entries("eval", "state", 0)]

\* The collection model's state after collecting for epoch ep in run r.
CollectedState(ep, r) == Entries("collect", "state", ep * (MaxRestarts + 2) + r)

\* (train_steps_per_epoch, evals_per_epoch) with a round of at least one step.
EpochLengths ==
  {<<s, e>> \in (1..MaxTrainSteps) \X (1..MaxTrainSteps) : e <= s}

Configs ==
  {[n_shared_layers |-> n,
    value_train_steps_per_epoch |-> v[1],
    value_evals_per_epoch |-> v[2],
    policy_train_steps_per_epoch |-> p[1],
    policy_evals_per_epoch |-> p[2]] :
     n \in 0..NLayers, v \in EpochLengths, p \in EpochLengths}

\* The trainer after construction, about to train epoch 0 (at = "start"), or
\* set aside while another part of the module is examined (at = "parked").
TrainerObject(c, at) ==
  /\ config = c
  /\ epoch = 0
  /\ pc = at
  /\ value_trainer = TrainerAt("value", 0)
  /\ policy_trainer = TrainerAt("policy", 0)
  /\ value_eval_model = EvalModelInit
  /\ policy_collect_model = [state |-> CollectedState(0, 0)]
  /\ n_value_evals = 0
  /\ n_policy_evals = 0
  /\ loop_left = 0
  /\ events = <<>>
  /\ restarts = 0
  /\ epoch_rounds = [value |-> 0, policy |-> 0]
  /\ call_entry = [value_step |-> 0, policy_step |-> 0, policy_weights |-> <<>>]
  /\ value_before_rounds = [model_weights |-> <<>>, model_state |-> <<>>]

TrainerParked == TrainerObject(CHOOSE c \in Configs : c.n_shared_layers = 0, "parked")

CopyParked == copy_call = [pc |-> "parked"]

CtorParked == ctor = [pc |-> "parked"]

StreamParked == stream = [pc |-> "parked"]

Init ==
  /\ \E c \in Configs : TrainerObject(c, "start")
  /\ CopyParked
  /\ CtorParked
  /\ StreamParked

(***************************************************************************)
(* train_epoch, lines 215-267.                                             *)
(***************************************************************************)

\* line 218
CopyCollectState ==
  /\ pc = "start"
  /\ policy_trainer' = [policy_trainer EXCEPT !.model_state = policy_collect_model.state]
  /\ events' = <<"collect_state_copy">>
  /\ call_entry' = [value_step |-> value_trainer.step,
                    policy_step |-> policy_trainer.step,
                    policy_weights |-> policy_trainer.model_weights]
  /\ pc' = "share_to_value"
  /\ UNCHANGED <<config, epoch, value_trainer, value_eval_model, policy_collect_model,
                 n_value_evals, n_policy_evals, loop_left, restarts, epoch_rounds,
                 value_before_rounds, aside>>

\* lines 220-224
CopyPolicyToValueReversed ==
  /\ pc = "share_to_value"
  /\ policy_trainer' = IF config.n_shared_layers > 0
                         THEN copy_model_weights_and_state(0, config.n_shared_layers,
                                                           value_trainer, policy_trainer)
                         ELSE policy_trainer
  /\ value_before_rounds' = [model_weights |-> value_trainer.model_weights,
                             model_state |-> value_trainer.model_state]
  /\ events' = IF config.n_shared_layers > 0
                 THEN Append(events, "policy_to_value_copy") ELSE events
  /\ pc' = "update_target"
  /\ UNCHANGED <<config, epoch, value_trainer, value_eval_model, policy_collect_model,
                 n_value_evals, n_policy_evals, loop_left, restarts, epoch_rounds,
                 call_entry, aside>>

CopyPolicyToValue ==
  /\ pc = "share_to_value"
  /\ LET copied == copy_model_weights_and_state(0, config.n_shared_layers,
                                                policy_trainer, value_trainer)
         to_value == IF config.n_shared_layers > 0 THEN copied ELSE value_trainer
     IN /\ value_trainer' = to_value
        /\ value_before_rounds' = [model_weights |-> to_value.model_weights,
                                   model_state |-> to_value.model_state]
  /\ events' = IF config.n_shared_layers > 0
                 THEN Append(events, "policy_to_value_copy") ELSE events
  /\ pc' = "update_target"
  /\ UNCHANGED <<config, epoch, policy_trainer, value_eval_model, policy_collect_model,
                 n_value_evals, n_policy_evals, loop_left, restarts, epoch_rounds,
                 call_entry, aside>>

\* lines 227-228 and 260-261
TargetOf(trainer) ==
  [weights |-> trainer.model_weights, state |-> trainer.model_state]

\* lines 226-228
UpdateTarget ==
  /\ pc = "update_target"
  /\ value_eval_model' = TargetOf(value_trainer)
  /\ pc' = "count_value_evals"
  /\ UNCHANGED <<config, epoch, value_trainer, policy_trainer, policy_collect_model,
                 n_value_evals, n_policy_evals, loop_left, events, restarts,
                 epoch_rounds, call_entry, value_before_rounds, aside>>

\* lines 230-234
CountValueEvals ==
  /\ pc = "count_value_evals"
  /\ n_value_evals' = remaining_evals(value_trainer.step, epoch,
                                      config.value_train_steps_per_epoch,
                                      config.value_evals_per_epoch)
  /\ loop_left' = n_value_evals'
  /\ pc' = "value_train"
  /\ UNCHANGED <<config, epoch, value_trainer, policy_trainer, value_eval_model,
                 policy_collect_model, n_policy_evals, events, restarts, epoch_rounds,
                 call_entry, value_before_rounds, aside>>

\* lines 235-239, one iteration
ValueRound ==
  /\ pc = "value_train"
  /\ loop_left > 0
  /\ value_trainer' = TrainerTrainEpoch("value", value_trainer,
                                        config.value_train_steps_per_epoch
                                          \div config.value_evals_per_epoch)
  /\ loop_left' = loop_left - 1
  /\ events' = Append(events, "value_round")
  /\ epoch_rounds' = [epoch_rounds EXCEPT !.value = @ + 1]
  /\ UNCHANGED <<config, epoch, pc, policy_trainer, value_eval_model,
                 policy_collect_model, n_value_evals, n_policy_evals, restarts,
                 call_entry, value_before_rounds, aside>>

\* lines 240-244, reached when the value loop is over
CopyValueToPolicyAllLayers ==
  /\ pc = "value_train"
  /\ loop_left <= 0
  /\ policy_trainer' = copy_model_weights_and_state(0, NLayers,
                                                    value_trainer, policy_trainer)
  /\ events' = IF config.n_shared_layers > 0
                 THEN Append(events, "value_to_policy_copy") ELSE events
  /\ pc' = "count_policy_evals"
  /\ UNCHANGED <<config, epoch, value_trainer, value_eval_model, policy_collect_model,
                 n_value_evals, n_policy_evals, loop_left, restarts, epoch_rounds,
                 call_entry, value_before_rounds, aside>>

CopyValueToPolicy ==
  /\ pc = "value_train"
  /\ loop_left <= 0
  /\ policy_trainer' = IF config.n_shared_layers > 0
                         THEN copy_model_weights_and_state(0, config.n_shared_layers,
                                                           value_trainer, policy_trainer)
                         ELSE policy_trainer
  /\ events' = IF config.n_shared_layers > 0
                 THEN Append(events, "value_to_policy_copy") ELSE events
  /\ pc' = "count_policy_evals"
  /\ UNCHANGED <<config, epoch, value_trainer, value_eval_model, policy_collect_model,
                 n_value_evals, n_policy_evals, loop_left, restarts, epoch_rounds,
                 call_entry, value_before_rounds, aside>>

\* lines 245-257
CountPolicyEvals ==
  /\ pc = "count_policy_evals"
  /\ n_policy_evals' = remaining_evals(policy_trainer.step, epoch,
                                       config.policy_train_steps_per_epoch,
                                       config.policy_evals_per_epoch)
  /\ LET stopped_after_value ==
           n_value_evals = 0 /\ n_policy_evals' < config.policy_evals_per_epoch
         should_copy_weights == config.n_shared_layers > 0 /\ ~stopped_after_value
     IN /\ policy_trainer' =
             IF should_copy_weights
               THEN copy_model_weights_and_state(0, config.n_shared_layers,
                                                 value_trainer, policy_trainer)
               ELSE policy_trainer
        /\ events' = IF should_copy_weights
                       THEN Append(events, "value_to_policy_copy") ELSE events
  /\ pc' = "update_target_again"
  /\ UNCHANGED <<config, epoch, value_trainer, value_eval_model, policy_collect_model,
                 n_value_evals, loop_left, restarts, epoch_rounds, call_entry,
                 value_before_rounds, aside>>

\* lines 259-261
UpdateTargetAgainSkipped ==
  /\ pc = "update_target_again"
  /\ loop_left' = n_policy_evals
  /\ pc' = "policy_train"
  /\ UNCHANGED <<config, epoch, value_trainer, policy_trainer, value_eval_model,
                 policy_collect_model, n_value_evals, n_policy_evals, events, restarts,
                 epoch_rounds, call_entry, value_before_rounds, aside>>

UpdateTargetAgain ==
  /\ pc = "update_target_again"
  /\ value_eval_model' = TargetOf(value_trainer)
  /\ loop_left' = n_policy_evals
  /\ pc' = "policy_train"
  /\ UNCHANGED <<config, epoch, value_trainer, policy_trainer, policy_collect_model,
                 n_value_evals, n_policy_evals, events, restarts, epoch_rounds,
                 call_entry, value_before_rounds, aside>>

\* lines 263-267, one iteration
PolicyRoundDuringValue ==
  /\ pc \in {"value_train", "policy_train"}
  /\ loop_left > 0
  /\ policy_trainer' = TrainerTrainEpoch("policy", policy_trainer,
                                         config.policy_train_steps_per_epoch
                                           \div config.policy_evals_per_epoch)
  /\ loop_left' = loop_left - 1
  /\ events' = Append(events, "policy_round")
  /\ epoch_rounds' = [epoch_rounds EXCEPT !.policy = @ + 1]
  /\ UNCHANGED <<config, epoch, pc, value_trainer, value_eval_model,
                 policy_collect_model, n_value_evals, n_policy_evals, restarts,
                 call_entry, value_before_rounds, aside>>

PolicyRound ==
  /\ pc = "policy_train"
  /\ loop_left > 0
  /\ policy_trainer' = TrainerTrainEpoch("policy", policy_trainer,
                                         config.policy_train_steps_per_epoch
                                           \div config.policy_evals_per_epoch)
  /\ loop_left' = loop_left - 1
  /\ events' = Append(events, "policy_round")
  /\ epoch_rounds' = [epoch_rounds EXCEPT !.policy = @ + 1]
  /\ UNCHANGED <<config, epoch, pc, value_trainer, value_eval_model,
                 policy_collect_model, n_value_evals, n_policy_evals, restarts,
                 call_entry, value_before_rounds, aside>>

\* line 267: the policy loop is over and train_epoch returns
Return ==
  /\ pc = "policy_train"
  /\ loop_left <= 0
  /\ pc' = "returned"
  /\ UNCHANGED <<config, epoch, value_trainer, policy_trainer, value_eval_model,
                 policy_collect_model, n_value_evals, n_policy_evals, loop_left,
                 events, restarts, epoch_rounds, call_entry, value_before_rounds,
                 aside>>

(***************************************************************************)
(* The outer loop: the next epoch collects and calls train_epoch again.    *)
(***************************************************************************)
NextEpoch ==
  /\ pc = "returned"
  /\ epoch + 1 < MaxEpochs
  /\ epoch' = epoch + 1
  /\ policy_collect_model' = [state |-> CollectedState(epoch + 1, restarts)]
  /\ pc' = "start"
  /\ events' = <<>>
  /\ epoch_rounds' = [value |-> 0, policy |-> 0]
  /\ n_value_evals' = 0
  /\ n_policy_evals' = 0
  /\ loop_left' = 0
  /\ UNCHANGED <<config, value_trainer, policy_trainer, value_eval_model, restarts,
                 call_entry, value_before_rounds, aside>>

(***************************************************************************)
(* The process terminates inside train_epoch (or right after it, before    *)
(* the epoch is recorded as done) and is started again: the trainers come  *)
(* back as their last completed round persisted them, the eval model is    *)
(* built anew, data is collected again and train_epoch is called with the  *)
(* same epoch index.                                                       *)
(***************************************************************************)
Restart ==
  /\ pc # "start"
  /\ restarts < MaxRestarts
  /\ restarts' = restarts + 1
  /\ value_trainer' = TrainerAt("value", value_trainer.step)
  /\ policy_trainer' = TrainerAt("policy", policy_trainer.step)
  /\ value_eval_model' = EvalModelInit
  /\ policy_collect_model' = [state |-> CollectedState(epoch, restarts + 1)]
  /\ pc' = "start"
  /\ events' = <<>>
  /\ n_value_evals' = 0
  /\ n_policy_evals' = 0
  /\ loop_left' = 0
  /\ UNCHANGED <<config, epoch, epoch_rounds, call_entry, value_before_rounds,
                 aside>>

Next ==
  \/ CopyCollectState
  \/ CopyPolicyToValue
  \/ UpdateTarget
  \/ CountValueEvals
  \/ ValueRound
  \/ CopyValueToPolicy
  \/ CountPolicyEvals
  \/ UpdateTargetAgain
  \/ PolicyRound
  \/ Return
  \/ NextEpoch
  \/ Restart

Spec == Init /\ [][Next]_vars

(***************************************************************************)
(* Properties of train_epoch.                                              *)
(***************************************************************************)
Occurrences(ev, what) == Cardinality({i \in DOMAIN ev : ev[i] = what})

PhaseOf(event) ==
  CASE event = "collect_state_copy" -> 1
    [] event = "policy_to_value_copy" -> 2
    [] event = "value_round" -> 3
    [] event = "value_to_policy_copy" -> 4
    [] event = "policy_round" -> 5

\* C1: with n_shared_layers > 0, a call of train_epoch that found no value
\* evaluations left (n_value_evals = 0) and fewer than policy_evals_per_epoch
\* policy evaluations left performs no value->policy copy at all.
C1_StoppedAfterValueSkipsCopy ==
  ( /\ pc \in {"update_target_again", "policy_train", "returned"}
    /\ config.n_shared_layers > 0
    /\ n_value_evals = 0
    /\ n_policy_evals < config.policy_evals_per_epoch )
  => Occurrences(events, "value_to_policy_copy") = 0

\* C2: within one call of train_epoch the phases come in the order collection
\* state copy, policy->value copy, value rounds, value->policy copy, policy
\* rounds: the call opens with the one collection state copy, the one
\* policy->value copy follows it exactly when layers are shared, and no event
\* of an earlier phase follows an event of a later phase.
C2_PhasesInOrder ==
  /\ \A i, j \in DOMAIN events : i < j => PhaseOf(events[i]) <= PhaseOf(events[j])
  /\ pc # "start" => /\ events # <<>>
                     /\ events[1] = "collect_state_copy"
                     /\ Occurrences(events, "collect_state_copy") = 1
  /\ pc \notin {"start", "share_to_value"} =>
       Occurrences(events, "policy_to_value_copy")
         = (IF config.n_shared_layers > 0 THEN 1 ELSE 0)
  /\ pc \in {"start", "share_to_value", "update_target", "count_value_evals"} =>
       /\ Occurrences(events, "value_round") = 0
       /\ Occurrences(events, "policy_round") = 0
  /\ pc = "value_train" => Occurrences(events, "policy_round") = 0

C2_Witness ==
  /\ pc = "returned"
  /\ Occurrences(events, "policy_to_value_copy") = 1
  /\ Occurrences(events, "value_round") >= 2
  /\ Occurrences(events, "value_to_policy_copy") >= 1
  /\ Occurrences(events, "policy_round") >= 2

C10_ValueStepsPerEpoch ==
  ( /\ pc = "returned"
    /\ call_entry.value_step = epoch * config.value_train_steps_per_epoch )
  => value_trainer.step = call_entry.value_step + config.value_train_steps_per_epoch

\* C5: with n_shared_layers = 0 no step of train_epoch copies between the two
\* trainers: the value trainer's weights and state change only in a value
\* round, the policy trainer's weights only in a policy round, and the policy
\* trainer's state only in a policy round or in the opening copy of the
\* collection model's state.
C5_NoSharingNoCopy ==
  [][ (config.n_shared_layers = 0 /\ restarts' = restarts) =>
        /\ ( \/ value_trainer'.model_weights # value_trainer.model_weights
             \/ value_trainer'.model_state # value_trainer.model_state )
           => events' = Append(events, "value_round")
        /\ policy_trainer'.model_weights # policy_trainer.model_weights
           => events' = Append(events, "policy_round")
        /\ policy_trainer'.model_state # policy_trainer.model_state
           => \/ events' = Append(events, "policy_round")
              \/ /\ events' = <<"collect_state_copy">>
                 /\ policy_trainer'.model_state = policy_collect_model.state
    ]_vars

C5_Witness ==
  /\ config.n_shared_layers = 0
  /\ pc = "returned"
  /\ Occurrences(events, "value_round") >= 1
  /\ Occurrences(events, "policy_round") >= 1
  /\ value_trainer.model_weights = Entries("value", "weights", value_trainer.step)
  /\ policy_trainer.model_weights = Entries("policy", "weights", policy_trainer.step)

\* C6: the value-target model changes only by being overwritten with the value
\* trainer's weights and state; while the value rounds of a call run it holds
\* the value trainer's weights and state as they were right after the
\* policy->value copy, and during the policy rounds and when train_epoch has
\* returned it equals the value trainer's current weights and state.
C6_TargetOnlyOverwritten ==
  /\ [](pc \in {"count_value_evals", "value_train"} =>
          /\ value_eval_model.weights = value_before_rounds.model_weights
          /\ value_eval_model.state = value_before_rounds.model_state)
  /\ [](pc \in {"policy_train", "returned"} =>
          /\ value_eval_model.weights = value_trainer.model_weights
          /\ value_eval_model.state = value_trainer.model_state)
  /\ [][ (restarts' = restarts /\ value_eval_model' # value_eval_model) =>
           /\ value_trainer' = value_trainer
           /\ value_eval_model'.weights = value_trainer.model_weights
           /\ value_eval_model'.state = value_trainer.model_state
       ]_vars

C6_Witness ==
  /\ pc = "value_train"
  /\ Occurrences(events, "value_round") >= 1
  /\ value_eval_model.weights # value_trainer.model_weights
  /\ value_eval_model.weights = value_before_rounds.model_weights

\* C11: with n_shared_layers > 0, in a call of train_epoch that found no value
\* evaluations left (n_value_evals = 0), when the first policy round is about
\* to start, or train_epoch has returned without one, the policy trainer's
\* weights in [0, n_shared_layers) are its weights at entry to the call and its
\* state in that range is the collection model's state copied in at line 218,
\* however many value->policy copies the call made; the value trainer's weights
\* and state in that range are those same entries of the policy trainer.
C11_SharedCopiesNetNoOp ==
  ( /\ pc \in {"policy_train", "returned"}
    /\ Occurrences(events, "policy_round") = 0
    /\ config.n_shared_layers > 0
    /\ n_value_evals = 0 )
  => LET n == config.n_shared_layers
     IN /\ PySlice(policy_trainer.model_weights, 0, n)
             = PySlice(call_entry.policy_weights, 0, n)
        /\ PySlice(policy_trainer.model_state, 0, n)
             = PySlice(policy_collect_model.state, 0, n)
        /\ PySlice(value_trainer.model_weights, 0, n)
             = PySlice(call_entry.policy_weights, 0, n)
        /\ PySlice(value_trainer.model_state, 0, n)
             = PySlice(policy_collect_model.state, 0, n)

\* The first policy round of a resumed call is about to start: the value
\* trainer had finished the epoch, both value->policy copies were made, and the
\* value trainer's shared entries are no longer the ones it had trained.
C11_Witness ==
  /\ pc = "policy_train"
  /\ loop_left > 0
  /\ Occurrences(events, "policy_round") = 0
  /\ config.n_shared_layers > 0
  /\ n_value_evals = 0
  /\ restarts >= 1
  /\ Occurrences(events, "value_to_policy_copy") = 2
  /\ value_trainer.step > 0
  /\ value_trainer.model_weights # Entries("value", "weights", value_trainer.step)
  /\ policy_trainer.model_weights = call_entry.policy_weights

(***************************************************************************)
(* SpecCopy: one call of _copy_model_weights_and_state on two trainers     *)
(* whose weights and state lists have any lengths up to MaxLen.            *)
(***************************************************************************)
ListOf(owner, kind, n) == [i \in 1..n |-> <<owner, kind, 0, i>>]

InitCopy ==
  /\ TrainerParked
  /\ CtorParked
  /\ StreamParked
  /\ \E fw, fs, tw, ts, a, b \in 0..MaxLen :
       /\ a <= b
       /\ copy_call =
            [pc |-> "call", start |-> a, end |-> b,
             from_trainer |-> [step |-> 0,
                               model_weights |-> ListOf("from", "weights", fw),
                               model_state |-> ListOf("from", "state", fs)],
             to_trainer |-> [step |-> 0,
                             model_weights |-> ListOf("to", "weights", tw),
                             model_state |-> ListOf("to", "state", ts)],
             from_after |-> <<>>, to_after |-> <<>>]

\* lines 274-288
CallCopy ==
  /\ copy_call.pc = "call"
  /\ copy_call' =
       [copy_call EXCEPT
          !.pc = "done",
          !.from_after = copy_call.from_trainer,
          !.to_after = copy_model_weights_and_state(copy_call.start, copy_call.end,
                                                    copy_call.from_trainer,
                                                    copy_call.to_trainer)]
  /\ UNCHANGED <<main_vars, ctor, stream>>

NextCopy == CallCopy

SpecCopy == InitCopy /\ [][NextCopy]_vars

\* dst is src with the entries at [a, b) taken from new, both lists holding them.
SliceReplaced(dst, src, new, a, b) ==
  /\ Len(dst) = Len(src)
  /\ \A i \in 1..Len(src) :
       dst[i] = (IF a < i /\ i <= b THEN new[i] ELSE src[i])

\* C4 as stated, for lists of any lengths: after the copy the destination's
\* slice [start, end) is the source's slice [start, end), the destination has
\* its old length and its old entries everywhere outside [start, end), and the
\* source is unchanged.
C4_CopyAnyLengths ==
  copy_call.pc = "done" =>
    LET c == copy_call
        Kept(dst, src) ==
          /\ Len(dst) = Len(src)
          /\ \A i \in 1..Len(src) : (i <= c.start \/ i > c.end) => dst[i] = src[i]
    IN /\ PySlice(c.to_after.model_weights, c.start, c.end)
            = PySlice(c.from_trainer.model_weights, c.start, c.end)
       /\ PySlice(c.to_after.model_state, c.start, c.end)
            = PySlice(c.from_trainer.model_state, c.start, c.end)
       /\ Kept(c.to_after.model_weights, c.to_trainer.model_weights)
       /\ Kept(c.to_after.model_state, c.to_trainer.model_state)
       /\ c.from_after = c.from_trainer

\* all four lists hold the range [0, end)
HoldsRange(c) ==
  /\ c.end <= Len(c.from_trainer.model_weights)
  /\ c.end <= Len(c.from_trainer.model_state)
  /\ c.end <= Len(c.to_trainer.model_weights)
  /\ c.end <= Len(c.to_trainer.model_state)

\* C4 amended: when the weights and state lists of both trainers hold at least
\* `end` entries, after the copy the destination's entries at [start, end) are
\* the source's entries at those indices, the destination has its old length
\* and its old entries at every other index, and the source is unchanged.
C4_CopyWithinLengths ==
  (copy_call.pc = "done" /\ HoldsRange(copy_call)) =>
    LET c == copy_call
    IN /\ SliceReplaced(c.to_after.model_weights, c.to_trainer.model_weights,
                        c.from_trainer.model_weights, c.start, c.end)
       /\ SliceReplaced(c.to_after.model_state, c.to_trainer.model_state,
                        c.from_trainer.model_state, c.start, c.end)
       /\ c.from_after = c.from_trainer

C4_Witness ==
  /\ copy_call.pc = "done"
  /\ HoldsRange(copy_call)
  /\ 0 < copy_call.start
  /\ copy_call.start < copy_call.end
  /\ copy_call.end < Len(copy_call.to_trainer.model_weights)
  /\ copy_call.end < Len(copy_call.to_trainer.model_state)
  /\ copy_call.to_after.model_weights # copy_call.to_trainer.model_weights
  /\ copy_call.to_after.model_state # copy_call.to_trainer.model_state

(***************************************************************************)
(* SpecInit: ActorCriticTrainer.__init__ run for one of the concrete       *)
(* trainer classes (lines 420-497).                                        *)
(***************************************************************************)
MaxReplayEpochs == 3

TrainerClasses == {"A2CTrainer", "PPOTrainer", "AWRTrainer"}

\* the class attribute on_policy (lines 423, 456, 486)
on_policy(cls) ==
  CASE cls = "A2CTrainer" -> TRUE
    [] cls = "PPOTrainer" -> TRUE
    [] cls = "AWRTrainer" -> FALSE

\* the property _replay_epochs (lines 133-140): the assertion, then
\* [-(ep + 1) for ep in range(n_replay_epochs)]
ReplayEpochsUnchecked(self) ==
  [raised |-> FALSE, value |-> [ep \in 1..self.n_replay_epochs |-> -ep]]

replay_epochs(self) ==
  IF on_policy(self.cls) /\ self.n_replay_epochs # 1
    THEN [raised |-> TRUE, value |-> <<>>]
    ELSE [raised |-> FALSE, value |-> [ep \in 1..self.n_replay_epochs |-> -ep]]

\* value_batches_stream up to its call of the task (lines 144-150): the
\* arguments are evaluated, _replay_epochs among them, before the task is asked.
value_batches_stream_request(self) ==
  LET epochs == replay_epochs(self)
  IN IF epochs.raised
       THEN [raised |-> TRUE, request |-> <<>>]
       ELSE [raised |-> FALSE,
             request |-> [batch_size |-> self.value_batch_size,
                          max_slice_length |-> self.max_slice_length
                                                 + self.added_policy_slice_length,
                          min_slice_length |-> 1 + self.added_policy_slice_length,
                          epochs |-> epochs.value]]

InitCtor ==
  /\ TrainerParked
  /\ CopyParked
  /\ StreamParked
  /\ \E cls \in TrainerClasses, n \in 0..MaxReplayEpochs,
        b \in {1, 2}, m \in {1, 2}, a \in {0, 1} :
       ctor = [pc |-> "new", cls |-> cls, n_replay_epochs |-> n,
               value_batch_size |-> b, max_slice_length |-> m,
               added_policy_slice_length |-> a,
               requests |-> <<>>, error |-> "none"]

\* lines 82-102
StoreArguments ==
  /\ ctor.pc = "new"
  /\ ctor' = [ctor EXCEPT !.pc = "value_inputs"]
  /\ UNCHANGED <<main_vars, copy_call, stream>>

\* lines 111-112: supervised.Inputs draws the first batch of the train stream
\* it is given, so value_batches_stream runs up to its first batch here.
CreateValueInputs ==
  /\ ctor.pc = "value_inputs"
  /\ LET first == value_batches_stream_request(ctor)
     IN ctor' = IF first.raised
                  THEN [ctor EXCEPT !.pc = "raised", !.error = "AssertionError"]
                  ELSE [ctor EXCEPT !.pc = "value_trainer",
                                    !.requests = Append(@, first.request)]
  /\ UNCHANGED <<main_vars, copy_call, stream>>

\* lines 113-120
CreateValueTrainer ==
  /\ ctor.pc = "value_trainer"
  /\ ctor' = [ctor EXCEPT !.pc = "policy_init"]
  /\ UNCHANGED <<main_vars, copy_call, stream>>

\* lines 122-123
InitPolicyTrainer ==
  /\ ctor.pc = "policy_init"
  /\ ctor' = [ctor EXCEPT !.pc = "constructed"]
  /\ UNCHANGED <<main_vars, copy_call, stream>>

NextCtor ==
  \/ StoreArguments
  \/ CreateValueInputs
  \/ CreateValueTrainer
  \/ InitPolicyTrainer

SpecInit == InitCtor /\ [][NextCtor]_vars

\* C8: an on-policy trainer (A2C, PPO) given n_replay_epochs # 1 fails inside
\* its constructor with the assertion error, before the task has been asked
\* for any trajectory batch, and never gets any further; every other trainer
\* raises no such error, and whatever it asks of the task it asks for the
\* epochs -1, ..., -n_replay_epochs.
C8_OnPolicyReplayWindow ==
  LET misconfigured == on_policy(ctor.cls) /\ ctor.n_replay_epochs # 1
  IN /\ misconfigured =>
          /\ ctor.pc \in {"new", "value_inputs", "raised"}
          /\ ctor.requests = <<>>
          /\ ctor.pc = "raised" => ctor.error = "AssertionError"
     /\ ~misconfigured =>
          /\ ctor.pc # "raised"
          /\ ctor.pc \in {"value_trainer", "policy_init", "constructed"} =>
               ctor.requests # <<>>
          /\ \A i \in DOMAIN ctor.requests :
               /\ Len(ctor.requests[i].epochs) = ctor.n_replay_epochs
               /\ \A k \in 1..ctor.n_replay_epochs : ctor.requests[i].epochs[k] = -k

C8_Witness ==
  /\ ctor.pc = "raised"
  /\ ctor.cls = "PPOTrainer"
  /\ ctor.n_replay_epochs = 2
  /\ ctor.error = "AssertionError"
  /\ ctor.requests = <<>>

(***************************************************************************)
(* SpecStream: policy_batches_stream of a constructed trainer.  Arrays are *)
(* modelled by their shapes, tuples of extents; the task, the value model  *)
(* and the advantage estimator are outside the file, so what they return   *)
(* is drawn from the shapes below.                                         *)
(***************************************************************************)
MaxDim == 2

Dims == 1..MaxDim

\* the class whose policy_inputs and policy_loss_given_log_probs a trainer uses
StreamClasses ==
  {"ActorCriticTrainer", "AdvantageBasedActorCriticTrainer",
   "A2CTrainer", "PPOTrainer", "AWRTrainer"}

AdvantageBased(cls) == cls # "ActorCriticTrainer"

Raise(exception) == [raised |-> TRUE, error |-> exception, value |-> <<>>]

Result(v) == [raised |-> FALSE, error |-> "none", value |-> v]

\* numpy.AxisError derives from both ValueError and IndexError.
IsValueError(exception) == exception \in {"ValueError", "AxisError"}

\* np.squeeze(x, axis=2), on the shape of x
squeeze_axis_2(shape) ==
  IF Len(shape) < 3 THEN Raise("AxisError")
  ELSE IF shape[3] # 1 THEN Raise("ValueError")
  ELSE Result(SubSeq(shape, 1, 2) \o SubSeq(shape, 4, Len(shape)))

\* x[:, :length], on the shape of x (every trajectory field has rank >= 2)
take_time(shape, length) == [shape EXCEPT ![2] = Min(@, length)]

\* AdvantageBasedActorCriticTrainer.policy_inputs (lines 322-355); advantages
\* is what the advantage estimator returned for this trajectory and values.
advantage_policy_inputs(trajectory, advantages) ==
  IF Len(advantages) < 2 THEN Raise("IndexError")     \* advantages.shape[1], line 333
  ELSE
    LET obs == take_time(trajectory.observations, advantages[2])
        act == take_time(trajectory.actions, advantages[2])
        old_logps == take_time(trajectory.log_probs, advantages[2])
        mask == take_time(trajectory.mask, advantages[2])
    IN IF Len(advantages) # 2 THEN Raise("ValueError")
       ELSE IF SubSeq(act, 1, 2) # advantages THEN Raise("ValueError")
       ELSE IF SubSeq(obs, 1, 2) # advantages THEN Raise("ValueError")
       ELSE IF old_logps # advantages THEN Raise("ValueError")
       ELSE IF mask # advantages THEN Raise("ValueError")
       ELSE Result([hook |-> "tuple",
                    shapes |-> <<obs, act, advantages, old_logps, mask>>])

\* ActorCriticTrainer.policy_inputs (lines 179-192): `return NotImplementedError`
base_policy_inputs(trajectory, advantages) ==
  Result([hook |-> "NotImplementedError", shapes |-> <<>>])

\* self.policy_inputs(trajectory, values)
policy_inputs(cls, trajectory, advantages) ==
  IF AdvantageBased(cls)
    THEN advantage_policy_inputs(trajectory, advantages)
    ELSE base_policy_inputs(trajectory, advantages)

\* one turn of the loop of policy_batches_stream (lines 198-213) for the
\* trajectory batch the task produced; model_output is what the eval model
\* returned for its observations.
policy_batches_stream_turn(self, trajectory, model_output, advantages) ==
  LET values == squeeze_axis_2(model_output)
  IN IF values.raised THEN values
     ELSE IF Len(values.value) # 2 THEN Raise("ValueError")
     ELSE IF values.value[1] # self.policy_batch_size THEN Raise("ValueError")
     ELSE policy_inputs(self.cls, trajectory, advantages)

\* the property policy_loss_given_log_probs (lines 357-360, 425-428, 463-466,
\* 494-497); ActorCriticTrainer itself defines none.
policy_loss_given_log_probs(cls) ==
  CASE cls = "A2CTrainer" -> Result("A2CLoss")
    [] cls = "PPOTrainer" -> Result("PPOLoss")
    [] cls = "AWRTrainer" -> Result("AWRLoss")
    [] cls = "AdvantageBasedActorCriticTrainer" -> Raise("NotImplementedError")
    [] OTHER -> Raise("AttributeError")

\* what the task, the eval model and the advantage estimator may hand back
Trajectories ==
  {[observations |-> <<b, t[1], 1>>,
    actions |-> <<b, t[2]>>,
    log_probs |-> IF r = 2 THEN <<b, t[3]>> ELSE <<b, t[3], 1>>,
    mask |-> <<b, t[4]>>] :
     b \in Dims, t \in Dims \X Dims \X Dims \X Dims, r \in {2, 3}}

ModelOutputs(trajectory) ==
  LET t == trajectory.observations[2]
  IN UNION {{<<b, t>>, <<b, t, 1>>, <<b, t, 2>>, <<b, t, 1, 1>>} : b \in Dims}

AdvantageShapes ==
  UNION {{<<b>>, <<b, t>>, <<b, t, 1>>} : b \in Dims, t \in Dims}

NoDraw == [trajectory |-> <<>>, model_output |-> <<>>, advantages |-> <<>>]

InitStream ==
  /\ TrainerParked
  /\ CopyParked
  /\ CtorParked
  /\ \E cls \in StreamClasses, b \in Dims :
       stream = [pc |-> "ready", cls |-> cls, policy_batch_size |-> b,
                 drawn |-> NoDraw, outcome |-> Result(<<>>)]

\* next(stream): lines 198-213 up to the yield or the exception
DrawPolicyBatch ==
  /\ stream.pc = "ready"
  /\ \E trajectory \in Trajectories, advantages \in AdvantageShapes :
       \E model_output \in ModelOutputs(trajectory) :
         LET got == policy_batches_stream_turn(stream, trajectory, model_output,
                                               advantages)
         IN stream' = [stream EXCEPT
                         !.pc = IF got.raised THEN "raised" ELSE "yielded",
                         !.drawn = [trajectory |-> trajectory,
                                    model_output |-> model_output,
                                    advantages |-> advantages],
                         !.outcome = got]
  /\ UNCHANGED <<main_vars, copy_call, ctor>>

\* the consumer asks for the next batch: the for loop of line 198 goes on
ResumeStream ==
  /\ stream.pc = "yielded"
  /\ stream' = [stream EXCEPT !.pc = "ready", !.drawn = NoDraw,
                              !.outcome = Result(<<>>)]
  /\ UNCHANGED <<main_vars, copy_call, ctor>>

\* reading self.policy_loss_given_log_probs
ReadPolicyLoss ==
  /\ stream.pc = "ready"
  /\ stream' = [stream EXCEPT !.pc = "loss_read",
                              !.outcome = policy_loss_given_log_probs(stream.cls)]
  /\ UNCHANGED <<main_vars, copy_call, ctor>>

NextStream ==
  \/ DrawPolicyBatch
  \/ ResumeStream
  \/ ReadPolicyLoss

SpecStream == InitStream /\ [][NextStream]_vars

\* the drawn batch passes every shape check of sections 4.2 and 4.3
WellShaped(self) ==
  LET d == self.drawn
      values == squeeze_axis_2(d.model_output)
      adv == d.advantages
      Extents(shape) == SubSeq(take_time(shape, adv[2]), 1, 2)
  IN /\ ~values.raised
     /\ Len(values.value) = 2
     /\ values.value[1] = self.policy_batch_size
     /\ Len(adv) = 2
     /\ Extents(d.trajectory.observations) = adv
     /\ Extents(d.trajectory.actions) = adv
     /\ take_time(d.trajectory.log_probs, adv[2]) = adv
     /\ take_time(d.trajectory.mask, adv[2]) = adv

\* C7: the policy stream of an advantage-based trainer yields only batches
\* built from rank-2 values whose leading extent is the policy batch size and
\* whose observations, actions, old log-probs and mask have the advantages'
\* [batch, time] extents; a draw that fails one of these checks raises a
\* ValueError and yields nothing.
C7_NoMalformedPolicyBatch ==
  (AdvantageBased(stream.cls) /\ stream.pc \in {"yielded", "raised"}) =>
    IF WellShaped(stream)
      THEN /\ stream.pc = "yielded"
           /\ stream.outcome.value.hook = "tuple"
           /\ \A i \in {1, 2, 4, 5} :
                SubSeq(stream.outcome.value.shapes[i], 1, 2) = stream.drawn.advantages
           /\ stream.outcome.value.shapes[3] = stream.drawn.advantages
      ELSE /\ stream.pc = "raised"
           /\ IsValueError(stream.outcome.error)

\* C9: a hook that is not overridden raises instead of producing a value: the
\* policy stream of a trainer with the base policy_inputs never yields, and
\* reading policy_loss_given_log_probs of the advantage-based base class
\* raises NotImplementedError.
C9_UnimplementedHooksRaise ==
  /\ stream.pc = "yielded" => AdvantageBased(stream.cls)
  /\ (stream.pc = "loss_read" /\ stream.cls = "AdvantageBasedActorCriticTrainer") =>
       /\ stream.outcome.raised
       /\ stream.outcome.error = "NotImplementedError"

====
